---- MODULE Spec2Model ----
(***************************************************************************)
(* Model of scripts/great_circle.py: the Coordinate value class, the       *)
(* haversine distance, the initial bearing, the prompt loop of             *)
(* get_coordinate and the session loop of main.                            *)
(*                                                                         *)
(* Numbers.  Python floats are modelled in fixed point.  Latitudes and     *)
(* longitudes are whole degrees.  Radians, sines, cosines and their        *)
(* products are integers in units of 1/Scale; products of two such values  *)
(* that the code squares or sums before a square root are kept exactly in  *)
(* units of 1/Scale^2.  Bearings in degrees are integers in hundredths of  *)
(* a degree before the final round(.., 1) and in tenths after it;          *)
(* distances are integers in thousandths of a unit, as round(.., 3) leaves *)
(* them.  Every operation rounds its exact result to the nearest           *)
(* representable value, ties to even, as IEEE arithmetic does, so the      *)
(* rounding effects of the code (a haversine term one unit above 1, a      *)
(* bearing rounded up to 360.0) have their counterpart here.  Quantities   *)
(* that double precision resolves only through the representation error of *)
(* pi, such as cos(radians(90)) = 6.1e-17, are 0 here: for antipodal       *)
(* points and for two points at the same pole x and y are both 0 in the    *)
(* model, where the code goes on with two values of the order of 1e-16.    *)
(***************************************************************************)
EXTENDS Integers, Sequences, FiniteSets, TLC

Scale == 10000       \* one unit of a fixed-point value is 1/Scale
PiFix == 31416       \* math.pi in units of 1/Scale
HalfPi == 15708      \* math.pi / 2 in units of 1/Scale

\* The arithmetic is written as functions, which take their arguments as values.

Abs[n \in Int] == IF n < 0 THEN -n ELSE n

Sign[n \in Int] == IF n < 0 THEN -1 ELSE IF n > 0 THEN 1 ELSE 0

\* the quotient q, q + 1, or the even one of the two, as twice the remainder r2
\* is below, above or at the divisor d
NearestEven[q \in Int, r2 \in Nat, d \in Nat] ==
    IF r2 < d THEN q ELSE IF r2 > d THEN q + 1 ELSE q + (q % 2)

\* n / d for d > 0, rounded to the nearest integer, ties to even
RoundDiv[n \in Int, d \in Nat \ {0}] == NearestEven[n \div d, 2 * (n % d), d]

\* x * y of two values in units of 1/Scale, in units of 1/Scale
Mul[x \in Int, y \in Int] == RoundDiv[x * y, Scale]

\* x * v2 of a value x in units of 1/Scale and a value v2 >= 0 in units of
\* 1/Scale^2, in units of 1/Scale^2
MulWide[x \in Int, v2 \in Nat] == x * (v2 \div Scale) + RoundDiv[x * (v2 % Scale), Scale]

\* v ** 2 of a value in units of 1/Scale, exactly, in units of 1/Scale^2
Square[v \in Int] == v * v

\* A binary float in [1, 2) has one bit less after the point than a float in
\* [1/2, 1): above 1 the representable values are 2/Scale apart (ties to even)
Fl[v \in Int] == IF v > Scale THEN 2 * RoundDiv[v, 2] ELSE v

\* the same for a value in units of 1/Scale^2
FlWide[v2 \in Int] ==
    IF v2 > Scale * Scale THEN 2 * Scale * RoundDiv[v2, 2 * Scale] ELSE v2

\* math.radians: whole degrees to radians
radians[deg \in Int] == RoundDiv[deg * PiFix, 180]

\* math.degrees: radians to hundredths of a degree
degrees[rad \in Int] == RoundDiv[rad * 18000, PiFix]

\* The sine series on [0, pi/4], x - x^3/3! + x^5/5! - x^7/7!, for x2 = x^2
SinSeries[x \in Nat, x2 \in Nat] ==
    LET t3 == RoundDiv[Mul[x, x2], 6]
        t5 == RoundDiv[Mul[t3, x2], 20]
        t7 == RoundDiv[Mul[t5, x2], 42]
    IN  x - t3 + t5 - t7

\* The cosine series on [0, pi/4], 1 - x^2/2! + x^4/4! - x^6/6! + x^8/8!, for
\* x2 = x^2
CosSeries[x2 \in Nat] ==
    LET t2 == RoundDiv[x2, 2]
        t4 == RoundDiv[Mul[t2, x2], 12]
        t6 == RoundDiv[Mul[t4, x2], 30]
        t8 == RoundDiv[Mul[t6, x2], 56]
    IN  Scale - t2 + t4 - t6 + t8

\* sine of x in [0, pi/2]
SinQuadrant[x \in Nat] ==
    IF 2 * x <= HalfPi
    THEN SinSeries[x, Mul[x, x]]
    ELSE CosSeries[Mul[HalfPi - x, HalfPi - x]]

\* an angle m in [0, 2 pi) brought into [0, pi/2] by the symmetries of the sine
FoldSin[m \in Nat] ==
    IF m <= HalfPi THEN m
    ELSE IF m <= PiFix THEN PiFix - m
    ELSE IF m <= PiFix + HalfPi THEN m - PiFix
    ELSE 2 * PiFix - m

\* the sine of the angle m in [0, 2 pi)
SinTurn[m \in Nat] == (IF m <= PiFix THEN 1 ELSE -1) * SinQuadrant[FoldSin[m]]

\* math.sin of x in [-2 pi, 2 pi]
sin[x \in Int] == Sign[x] * SinTurn[Abs[x] % (2 * PiFix)]

\* math.cos of x in [-2 pi, 2 pi]: the sine of the angle a quarter turn on
cos[x \in Int] == SinTurn[(Abs[x] + HalfPi) % (2 * PiFix)]

\* the integer nearest to the square root of n, searched between lo and hi;
\* mid is the middle of the two
SqrtSearch[n \in Nat, lo \in Nat, hi \in Nat, mid \in Nat] ==
    IF hi - lo <= 1
    THEN IF n - lo * lo <= hi * hi - n THEN lo ELSE hi
    ELSE IF mid * mid <= n
         THEN SqrtSearch[n, mid, hi, (mid + hi) \div 2]
         ELSE SqrtSearch[n, lo, mid, (lo + mid) \div 2]

\* math.sqrt of a value v2 >= 0 in units of 1/Scale^2, in units of 1/Scale
sqrt[v2 \in Nat] == Fl[SqrtSearch[v2, 0, 2 * Scale, Scale]]

\* q sin(t) - p cos(t), which is 0 where tan(t) = p / q
AtanError[p \in Nat, q \in Nat, t \in Nat] ==
    q * SinQuadrant[t] - p * SinQuadrant[HalfPi - t]

\* the angle t in [lo, hi], a sub-range of [0, pi/2], with tan(t) nearest to p / q,
\* for p >= 0 and q >= 0 not both 0; emid is the error in the middle of the range
AtanSearch[p \in Nat, q \in Nat, lo \in Nat, hi \in Nat, emid \in Int] ==
    IF hi - lo <= 1
    THEN IF -AtanError[p, q, lo] <= AtanError[p, q, hi] THEN lo ELSE hi
    ELSE IF emid <= 0
         THEN AtanSearch[p, q, (lo + hi) \div 2, hi,
                         AtanError[p, q, ((lo + hi) \div 2 + hi) \div 2]]
         ELSE AtanSearch[p, q, lo, (lo + hi) \div 2,
                         AtanError[p, q, (lo + (lo + hi) \div 2) \div 2]]

\* the angle in (-pi, pi] of the point with ordinate x and abscissa y, from the
\* angle t in [0, pi/2] of the point (|y|, |x|)
QuadrantAngle[x \in Int, y \in Int, t \in Nat] ==
    IF y >= 0
    THEN Sign[x] * t
    ELSE IF x >= 0 THEN PiFix - t ELSE t - PiFix

\* math.atan2(x, y); atan2(0, 0) = 0 and atan2(0, y) = pi for y < 0 (x is never
\* -0.0 here)
atan2[x \in Int, y \in Int] ==
    IF x = 0 /\ y = 0 THEN 0
    ELSE QuadrantAngle[x, y, AtanSearch[Abs[x], Abs[y], 0, HalfPi,
                                        AtanError[Abs[x], Abs[y], HalfPi \div 2]]]

\* math.asin of v in [-1, 1], the angle in [-pi/2, pi/2] of the point
\* (sqrt(1 - v^2), v) of the unit circle
asin[v \in Int] == atan2[v, sqrt[Scale * Scale - v * v]]

\* what a call does: it returns a value or raises an exception
Return(v) == [kind |-> "return", value |-> v]

Raise(e) == [kind |-> "raise", exc |-> e]

\* A faulty variant of __post_init__: strict comparisons, which refuse the exact
\* boundaries
CoordinateStrict(latitude, longitude) ==
    IF ~(-90 < latitude /\ latitude < 90) THEN Raise("ValidationError")
    ELSE IF ~(-180 < longitude /\ longitude < 180) THEN Raise("ValidationError")
    ELSE Return([latitude |-> latitude, longitude |-> longitude])

\* Coordinate.__post_init__: the range checks on the two fields just set
Coordinate(latitude, longitude) ==
    IF ~(-90 <= latitude /\ latitude <= 90) THEN Raise("ValidationError")
    ELSE IF ~(-180 <= longitude /\ longitude <= 180) THEN Raise("ValidationError")
    ELSE Return([latitude |-> latitude, longitude |-> longitude])

\* Coordinate.to_radians
to_radians(self) == <<radians[self.latitude], radians[self.longitude]>>

\* a = sin(dlat / 2)**2 + cos(lat1) * cos(lat2) * sin(dlon / 2)**2 for the four
\* angles in radians, in units of 1/Scale^2
HaversineTerm[lat1 \in Int, lon1 \in Int, lat2 \in Int, lon2 \in Int] ==
    FlWide[Square[sin[RoundDiv[lat2 - lat1, 2]]]
           + MulWide[Mul[cos[lat1], cos[lat2]], Square[sin[RoundDiv[lon2 - lon1, 2]]]]]

\* A faulty variant of the haversine term: dlat = lat2 + lat1
haversine_a_sum(origin, destination) ==
    HaversineTerm[-to_radians(origin)[1], to_radians(origin)[2],
                  to_radians(destination)[1], to_radians(destination)[2]]

\* A faulty variant of the haversine term: cos(lat1) * cos(lat1) for
\* cos(lat1) * cos(lat2)
haversine_a_origin(origin, destination) ==
    FlWide[Square[sin[RoundDiv[to_radians(destination)[1] - to_radians(origin)[1], 2]]]
           + MulWide[Mul[cos[to_radians(origin)[1]], cos[to_radians(origin)[1]]],
                     Square[sin[RoundDiv[to_radians(destination)[2]
                                         - to_radians(origin)[2], 2]]]]]

\* the haversine term a of haversine_distance
haversine_a(origin, destination) ==
    HaversineTerm[to_radians(origin)[1], to_radians(origin)[2],
                  to_radians(destination)[1], to_radians(destination)[2]]

\* round(c * radius, 3) in thousandths, for c in units of 1/Scale and the radius
\* in tenths of a unit
Distance[c \in Int, radius10 \in Nat] == RoundDiv[c * radius10, 100]

\* the three distances for the central angle c
DistancesAt[c \in Int] ==
    [kilometers |-> Distance[c, 63710],
     statute_miles |-> Distance[c, 39590],
     nautical_miles |-> Distance[c, 34401]]

\* c = 2 * asin(root) and the return statement; asin raises ValueError outside
\* its domain
DistancesOfRoot[root \in Nat] ==
    IF root > Scale THEN Raise("ValueError")
    ELSE Return(DistancesAt[2 * asin[root]])

\* the rest of haversine_distance, from its term a on; sqrt raises ValueError
\* outside its domain
DistancesOf[term \in Int] ==
    IF term < 0 THEN Raise("ValueError") ELSE DistancesOfRoot[sqrt[term]]

haversine_distance(origin, destination) == DistancesOf[haversine_a(origin, destination)]

\* x = sin(dlon) * cos(lat2) of calculate_initial_bearing
BearingX[lat1 \in Int, lon1 \in Int, lat2 \in Int, lon2 \in Int] ==
    Mul[sin[lon2 - lon1], cos[lat2]]

\* y = cos(lat1) * sin(lat2) - sin(lat1) * cos(lat2) * cos(dlon)
BearingY[lat1 \in Int, lon1 \in Int, lat2 \in Int, lon2 \in Int] ==
    Mul[cos[lat1], sin[lat2]] - Mul[Mul[sin[lat1], cos[lat2]], cos[lon2 - lon1]]

\* x and y of calculate_initial_bearing, in units of 1/Scale
bearing_xy(origin, destination) ==
    [x |-> BearingX[to_radians(origin)[1], to_radians(origin)[2],
                    to_radians(destination)[1], to_radians(destination)[2]],
     y |-> BearingY[to_radians(origin)[1], to_radians(origin)[2],
                    to_radians(destination)[1], to_radians(destination)[2]]]

\* round(bearing, 1): hundredths of a degree to tenths
Round1[h \in Int] == RoundDiv[h, 10]

\* (degrees(bearing) + 360) % 360, in hundredths of a degree
Normalize[rad \in Int] == (degrees[rad] + 36000) % 36000

\* asin(x / r) for r = sqrt(x**2 + y**2), which lines 121 to 128 evaluate three
\* times over: only its exception outlives it, "none" when it raises none
RatioError[x \in Int, r \in Nat] ==
    IF r = 0 THEN "ZeroDivisionError"
    ELSE IF Abs[RoundDiv[x * Scale, r]] > Scale THEN "ValueError"
    ELSE "none"

\* the rest of calculate_initial_bearing, from x and y on: bearing = atan2(x, y),
\* normalised to degrees and rounded to one decimal, unless line 121 has raised
BearingFrom[x \in Int, y \in Int, error \in {"none", "ZeroDivisionError", "ValueError"}] ==
    IF error # "none" THEN Raise(error) ELSE Return(Round1[Normalize[atan2[x, y]]])

BearingOf[x \in Int, y \in Int] ==
    BearingFrom[x, y, RatioError[x, sqrt[Square[x] + Square[y]]]]

\* A faulty variant of calculate_initial_bearing: it returns the value lines 121
\* to 124 compute, asin(x / sqrt(x**2 + y**2)) in degrees, normalised and rounded
calculate_initial_bearing_asin(origin, destination) ==
    LET xy == bearing_xy(origin, destination)
        r == sqrt[Square[xy.x] + Square[xy.y]]
    IN  IF r = 0 THEN Raise("ZeroDivisionError")
        ELSE Return(Round1[Normalize[asin[RoundDiv[xy.x * Scale, r]]]])

calculate_initial_bearing(origin, destination) ==
    BearingOf[bearing_xy(origin, destination).x, bearing_xy(origin, destination).y]

\* the characters a typed line is made of in this model
DigitValue ==
    [c \in {"0", "1", "2", "3", "4", "5", "6", "7", "8", "9"} |->
        CASE c = "0" -> 0 [] c = "1" -> 1 [] c = "2" -> 2 [] c = "3" -> 3
          [] c = "4" -> 4 [] c = "5" -> 5 [] c = "6" -> 6 [] c = "7" -> 7
          [] c = "8" -> 8 [] c = "9" -> 9]

RECURSIVE DigitsValue(_)
DigitsValue(s) ==
    IF s = <<>> THEN 0
    ELSE 10 * DigitsValue(SubSeq(s, 1, Len(s) - 1)) + DigitValue[s[Len(s)]]

\* float(text) for a line of signs, digits and letters: an optional sign and at
\* least one digit, or ValueError
float(text) ==
    LET signed == text # <<>> /\ Head(text) \in {"-", "+"}
        body == IF signed THEN Tail(text) ELSE text
    IN  IF body = <<>> \/ \E i \in 1..Len(body) : body[i] \notin DOMAIN DigitValue
        THEN Raise("ValueError")
        ELSE Return((IF signed /\ Head(text) = "-" THEN -1 ELSE 1) * DigitsValue(body))

\* str.lower on the letters of this model
LowerChar(c) == CASE c = "Y" -> "y" [] c = "N" -> "n" [] OTHER -> c

lower(text) == [i \in 1..Len(text) |-> LowerChar(text[i])]

\* str.strip: the blanks at both ends removed
RECURSIVE strip(_)
strip(text) ==
    IF text = <<>> THEN text
    ELSE IF Head(text) = " " THEN strip(Tail(text))
    ELSE IF text[Len(text)] = " " THEN strip(SubSeq(text, 1, Len(text) - 1))
    ELSE text

----------------------------------------------------------------------------
MaxRetries == 2      \* refused entries counted per get_coordinate call
LatSteps == 1        \* latitudes 12 k degrees, k in -LatSteps..LatSteps, are drawn
LonSteps == 1        \* longitudes 60 k degrees, k in -LonSteps..LonSteps, are drawn
MaxInstances == 2    \* Coordinate instances alive at once

\* what is typed at the latitude and longitude prompts of the session
LatTexts ==
    {<<"0">>, <<"1", "2">>, <<"8", "9">>, <<"+", "9", "1">>, <<"x">>, <<>>}

LonTexts ==
    {<<"0">>, <<"-", "1">>, <<"6", "0">>, <<"1", "8", "1">>, <<"9", "x">>}

\* what is typed at the repeat question
AgainTexts == {<<"y">>, <<" ", "Y", " ">>, <<"n">>, <<"y", "e", "s">>, <<>>}

\* the field values of the constructions and field assignments
LatValues == {-91, -90, 0, 90, 91}

LonValues == {-181, -180, 0, 180, 181}

\* the valid Coordinates the two engines are applied to: a grid with the poles
\* and both ends of the longitude range, and a point next to the north pole
GridLatitudes == {-90, 90} \cup {12 * k : k \in -LatSteps..LatSteps}

GridLongitudes == {-180, 180} \cup {60 * k : k \in -LonSteps..LonSteps}

GridCoordinates ==
    {[latitude |-> la, longitude |-> lo] : la \in GridLatitudes, lo \in GridLongitudes}
        \cup {[latitude |-> 89, longitude |-> -1]}

NoCoordinate == [kind |-> "none"]

NoResult == [kind |-> "none"]

VARIABLES
    pc,           \* main: where the session loop stands
    gc,           \* get_coordinate: the prompt it stands at, "lat" or "lon"
    depth,        \* the number of get_coordinate frames on the call stack
    retries,      \* the entries the running get_coordinate call has refused
    lat,          \* get_coordinate: the latitude parsed in this pass of its loop
    origin,       \* main: origin
    destination,  \* main: destination
    distances,    \* main: distances
    bearing,      \* main: bearing
    again,        \* main: again
    shown,        \* what display_results printed in this pass of the session loop
    event,        \* the exception the last step raised, or "none"
    a,            \* the engines alone: the first Coordinate
    b,            \* the engines alone: the second Coordinate
    dist,         \* the engines alone: what haversine_distance(a, b) did
    bear,         \* the engines alone: what calculate_initial_bearing(a, b) did
    instances,    \* the Coordinate class alone: the instances alive
    last          \* the Coordinate class alone: the last operation and what it did

sessionVars ==
    <<pc, gc, depth, retries, lat, origin, destination, distances, bearing, again,
      shown, event>>

engineVars == <<a, b, dist, bear>>

classVars == <<instances, last>>

vars == <<sessionVars, engineVars, classVars>>

----------------------------------------------------------------------------
(* The session: main and get_coordinate.                                   *)

\* main stands at the latitude prompt of get_coordinate("origin"): the state at
\* the top of the session loop, where none of the loop's values is in use
LoopTop ==
    /\ pc' = "get_origin"
    /\ gc' = "lat"
    /\ depth' = 1
    /\ retries' = 0
    /\ lat' = NoResult
    /\ origin' = NoCoordinate
    /\ destination' = NoCoordinate
    /\ distances' = NoResult
    /\ bearing' = NoResult
    /\ shown' = NoResult

SessionInit ==
    /\ pc = "get_origin"
    /\ gc = "lat"
    /\ depth = 1
    /\ retries = 0
    /\ lat = NoResult
    /\ origin = NoCoordinate
    /\ destination = NoCoordinate
    /\ distances = NoResult
    /\ bearing = NoResult
    /\ again = <<>>
    /\ shown = NoResult
    /\ event = "none"

\* A faulty variant of the except clauses of get_coordinate: they call
\* get_coordinate again, and return what the new call returns
RepromptByRecursion(e) ==
    /\ retries < MaxRetries
    /\ retries' = retries + 1
    /\ depth' = depth + 1
    /\ event' = e
    /\ gc' = "lat"
    /\ lat' = NoResult
    /\ UNCHANGED <<pc, origin, destination, distances, bearing, again, shown>>

\* get_coordinate: an except clause of its loop prints the error, and the loop
\* prompts for the latitude again
Reprompt(e) ==
    /\ retries < MaxRetries
    /\ retries' = retries + 1
    /\ event' = e
    /\ gc' = "lat"
    /\ lat' = NoResult
    /\ UNCHANGED <<pc, depth, origin, destination, distances, bearing, again, shown>>

\* A faulty variant of except Exception in main: it falls through to the repeat
\* question
HandleExceptionThenAsk(e) ==
    /\ event' = e
    /\ pc' = "again"
    /\ depth' = 0
    /\ UNCHANGED <<gc, retries, lat, origin, destination, distances, bearing, again,
                   shown>>

\* main: except Exception prints the error, and the session loop starts again
HandleException(e) ==
    /\ event' = e
    /\ LoopTop
    /\ UNCHANGED again

\* get_coordinate returns c to main, which goes on to its next statement
ReturnCoordinate(c) ==
    /\ event' = "none"
    /\ lat' = NoResult
    /\ gc' = "lat"
    /\ retries' = 0
    /\ IF pc = "get_origin"
       THEN /\ origin' = c
            /\ pc' = "get_destination"
            /\ depth' = 1
            /\ UNCHANGED destination
       ELSE /\ destination' = c
            /\ pc' = "haversine"
            /\ depth' = 0
            /\ UNCHANGED origin
    /\ UNCHANGED <<distances, bearing, again, shown>>

\* get_coordinate: a line is typed at the latitude prompt
EnterLatitude(text) ==
    /\ pc \in {"get_origin", "get_destination"}
    /\ gc = "lat"
    /\ LET r == float(text)
       IN  IF r.kind = "raise"
           THEN Reprompt(r.exc)
           ELSE /\ lat' = r
                /\ gc' = "lon"
                /\ event' = "none"
                /\ UNCHANGED <<pc, depth, retries, origin, destination, distances,
                               bearing, again, shown>>
    /\ UNCHANGED <<engineVars, classVars>>

\* get_coordinate: a line is typed at the longitude prompt, and the Coordinate
\* is constructed
EnterLongitude(text) ==
    /\ pc \in {"get_origin", "get_destination"}
    /\ gc = "lon"
    /\ LET r == float(text)
       IN  IF r.kind = "raise"
           THEN Reprompt(r.exc)
           ELSE LET c == Coordinate(lat.value, r.value)
                IN  IF c.kind = "raise" THEN Reprompt(c.exc)
                    ELSE ReturnCoordinate(c.value)
    /\ UNCHANGED <<engineVars, classVars>>

\* main: distances = haversine_distance(origin, destination)
ComputeDistances ==
    /\ pc = "haversine"
    /\ LET r == haversine_distance(origin, destination)
       IN  IF r.kind = "raise"
           THEN HandleException(r.exc)
           ELSE /\ distances' = r
                /\ pc' = "bearing"
                /\ event' = "none"
                /\ UNCHANGED <<gc, depth, retries, lat, origin, destination, bearing,
                               again, shown>>
    /\ UNCHANGED <<engineVars, classVars>>

\* main: bearing = calculate_initial_bearing(origin, destination)
ComputeBearing ==
    /\ pc = "bearing"
    /\ LET r == calculate_initial_bearing(origin, destination)
       IN  IF r.kind = "raise"
           THEN HandleException(r.exc)
           ELSE /\ bearing' = r
                /\ pc' = "display"
                /\ event' = "none"
                /\ UNCHANGED <<gc, depth, retries, lat, origin, destination, distances,
                               again, shown>>
    /\ UNCHANGED <<engineVars, classVars>>

\* main: display_results(origin, destination, distances, bearing)
display_results ==
    /\ pc = "display"
    /\ shown' = [origin |-> origin, destination |-> destination,
                 distances |-> distances.value, bearing |-> bearing.value]
    /\ pc' = "again"
    /\ event' = "none"
    /\ UNCHANGED <<gc, depth, retries, lat, origin, destination, distances, bearing,
                   again>>
    /\ UNCHANGED <<engineVars, classVars>>

\* main: the repeat question is answered
AnswerAgain(text) ==
    /\ pc = "again"
    /\ again' = strip(lower(text))
    /\ event' = "none"
    /\ IF again' # <<"y">>
       THEN /\ pc' = "done"
            /\ UNCHANGED <<gc, depth, retries, lat, origin, destination, distances,
                           bearing, shown>>
       ELSE LoopTop
    /\ UNCHANGED <<engineVars, classVars>>

\* input() meets the end of the input: EOFError, which get_coordinate does not
\* catch and main does
EndOfInput ==
    /\ pc \in {"get_origin", "get_destination", "again"}
    /\ HandleException("EOFError")
    /\ UNCHANGED <<engineVars, classVars>>

\* main: except KeyboardInterrupt, wherever the interrupt arrives
KeyboardInterrupt ==
    /\ pc # "done"
    /\ pc' = "done"
    /\ depth' = 0
    /\ event' = "KeyboardInterrupt"
    /\ UNCHANGED <<gc, retries, lat, origin, destination, distances, bearing, again,
                   shown>>
    /\ UNCHANGED <<engineVars, classVars>>

----------------------------------------------------------------------------
(* The two engines alone, applied to a pair of valid Coordinates.          *)

CallHaversine ==
    /\ dist = NoResult
    /\ dist' = haversine_distance(a, b)
    /\ UNCHANGED <<a, b, bear, sessionVars, classVars>>

CallBearing ==
    /\ bear = NoResult
    /\ bear' = calculate_initial_bearing(a, b)
    /\ UNCHANGED <<a, b, dist, sessionVars, classVars>>

----------------------------------------------------------------------------
(* The Coordinate class alone: what its callers can do with it.            *)

\* Coordinate(latitude, longitude): the dataclass __init__ sets the two fields
\* and calls __post_init__; when that raises, the caller gets no instance
Construct(latitude, longitude) ==
    LET r == Coordinate(latitude, longitude)
    IN  /\ last' = [op |-> "Coordinate", latitude |-> latitude,
                    longitude |-> longitude, result |-> r]
        /\ IF r.kind = "return"
           THEN /\ Cardinality(instances \cup {r.value}) <= MaxInstances
                /\ instances' = instances \cup {r.value}
           ELSE UNCHANGED instances
        /\ UNCHANGED <<sessionVars, engineVars>>

\* c.latitude = v or c.longitude = v: the dataclass is not frozen, and its
\* fields are plain attributes that __post_init__ does not see again
SetAttr(c, field, v) ==
    /\ c \in instances
    /\ instances' = (instances \ {c}) \cup {[c EXCEPT ![field] = v]}
    /\ last' = [op |-> "setattr", field |-> field]
    /\ UNCHANGED <<sessionVars, engineVars>>

\* c.to_radians(): reads the two fields
ToRadians(c) ==
    /\ c \in instances
    /\ last' = [op |-> "to_radians", result |-> to_radians(c)]
    /\ UNCHANGED <<instances, sessionVars, engineVars>>

\* the last reference to c is dropped
Discard(c) ==
    /\ c \in instances
    /\ instances' = instances \ {c}
    /\ last' = [op |-> "del"]
    /\ UNCHANGED <<sessionVars, engineVars>>

----------------------------------------------------------------------------
EngineIdle == a = NoCoordinate /\ b = NoCoordinate /\ dist = NoResult /\ bear = NoResult

ClassIdle == instances = {} /\ last = [op |-> "none"]

Init == SessionInit /\ EngineIdle /\ ClassIdle

Next ==
    \/ \E text \in LatTexts : EnterLatitude(text)
    \/ \E text \in LonTexts : EnterLongitude(text)
    \/ ComputeDistances
    \/ ComputeBearing
    \/ display_results
    \/ \E text \in AgainTexts : AnswerAgain(text)
    \/ EndOfInput
    \/ KeyboardInterrupt

Spec == Init /\ [][Next]_vars

EngineInit ==
    /\ a \in GridCoordinates
    /\ b \in GridCoordinates
    /\ dist = NoResult
    /\ bear = NoResult
    /\ SessionInit
    /\ ClassIdle

EngineNext == CallHaversine \/ CallBearing

EngineSpec == EngineInit /\ [][EngineNext]_vars

ClassInit == ClassIdle /\ SessionInit /\ EngineIdle

ClassNext ==
    \/ \E la \in LatValues, lo \in LonValues : Construct(la, lo)
    \/ \E c \in instances : \E v \in LatValues : SetAttr(c, "latitude", v)
    \/ \E c \in instances : \E v \in LonValues : SetAttr(c, "longitude", v)
    \/ \E c \in instances : ToRadians(c)
    \/ \E c \in instances : Discard(c)

ClassSpec == ClassInit /\ [][ClassNext]_vars

----------------------------------------------------------------------------
(* Properties of the Coordinate class, checked under ClassSpec.            *)

\* C1: constructing Coordinate(latitude, longitude) raises ValidationError exactly
\* when the latitude is outside [-90, 90] or the longitude is outside
\* [-180, 180]; at the boundaries and for every pair in range it returns the
\* instance with these two fields; a failing construction produces no instance.
C1_ConstructionValidated ==
    /\ [](last.op = "Coordinate" =>
            LET inRange == /\ -90 <= last.latitude /\ last.latitude <= 90
                           /\ -180 <= last.longitude /\ last.longitude <= 180
            IN  /\ ~inRange <=> last.result.kind = "raise"
                /\ ~inRange => last.result.exc = "ValidationError"
                /\ inRange =>
                     /\ last.result.value = [latitude |-> last.latitude,
                                             longitude |-> last.longitude]
                     /\ last.result.value \in instances)
    /\ [][(last'.op = "Coordinate" /\ last'.result.kind = "raise")
              => instances' = instances]_vars

\* C1 witness: latitude 91 has just been refused, and the instance constructed at
\* the boundaries 90 and -180 exists.
C1_Witness ==
    /\ last.op = "Coordinate"
    /\ last.latitude = 91
    /\ last.result.kind = "raise"
    /\ [latitude |-> 90, longitude |-> -180] \in instances

\* C5: every Coordinate instance that exists has its latitude in [-90, 90] and
\* its longitude in [-180, 180], whatever operations came after its construction,
\* field assignment included.
C5_InstancesStayInRange ==
    \A c \in instances :
        /\ -90 <= c.latitude /\ c.latitude <= 90
        /\ -180 <= c.longitude /\ c.longitude <= 180

----------------------------------------------------------------------------
(* Properties of the two engines, checked under EngineSpec.                *)

\* C2: for coincident origin and destination, calculate_initial_bearing returns a
\* sentinel (a value that is no number) or raises UndefinedBearingError.
C2_CoincidentIsUndefined ==
    (a = b /\ bear # NoResult) =>
        \/ bear.kind = "return" /\ bear.value \notin Int
        \/ bear.kind = "raise" /\ bear.exc = "UndefinedBearingError"

\* C3: a bearing that calculate_initial_bearing returns is in [0, 360): at least
\* 0 and below 3600 tenths of a degree.
C3_BearingBelow360 ==
    bear.kind = "return" => (0 <= bear.value /\ bear.value < 3600)

\* C4: haversine_distance raises no exception, its term a is inside [0, 1] when
\* the square root is taken, and its three distances are non-negative.
C4_TotalWithTermInUnitRange ==
    dist # NoResult =>
        /\ dist.kind = "return"
        /\ 0 <= haversine_a(a, b) /\ haversine_a(a, b) <= Scale * Scale
        /\ dist.value.kilometers >= 0
        /\ dist.value.statute_miles >= 0
        /\ dist.value.nautical_miles >= 0

\* C7: haversine_distance(p, p) returns 0 kilometers, 0 statute miles and 0
\* nautical miles.
C7_SelfDistanceZero ==
    (a = b /\ dist # NoResult) =>
        dist = Return([kilometers |-> 0, statute_miles |-> 0, nautical_miles |-> 0])

\* C7 witness: the distance from a point off the equator and off the prime
\* meridian to itself has been computed.
C7_Witness ==
    /\ a = b
    /\ a.latitude = 89
    /\ a.longitude = -1
    /\ dist.kind = "return"

\* C8: haversine_distance(a, b) does what haversine_distance(b, a) does, with
\* the same three distances.
C8_DistanceSymmetric ==
    dist # NoResult => dist = haversine_distance(b, a)

\* C8 witness: a non-zero distance between two points of different latitudes
\* and different longitudes has been computed.
C8_Witness ==
    /\ dist.kind = "return"
    /\ a.latitude # b.latitude
    /\ a.longitude # b.longitude
    /\ a.latitude # -b.latitude
    /\ dist.value.kilometers > 0

----------------------------------------------------------------------------
(* Properties of the session, checked under Spec.                          *)

C10_SessionLoop ==
    /\ [](shown # NoResult =>
            /\ haversine_distance(origin, destination).kind = "return"
            /\ calculate_initial_bearing(origin, destination).kind = "return"
            /\ shown = [origin |-> origin, destination |-> destination,
                        distances |-> haversine_distance(origin, destination).value,
                        bearing |-> calculate_initial_bearing(origin, destination).value])
    /\ [][/\ (shown' # shown /\ shown' # NoResult) =>
                (pc = "display" /\ distances.kind = "return" /\ bearing.kind = "return")
          /\ (/\ event' # "KeyboardInterrupt"
              /\ \/ pc = "haversine"
                    /\ haversine_distance(origin, destination).kind = "raise"
                 \/ pc = "bearing"
                    /\ calculate_initial_bearing(origin, destination).kind = "raise")
                => (/\ pc' = "get_origin"
                    /\ gc' = "lat"
                    /\ shown' = NoResult
                    /\ again' = again
                    /\ origin' = NoCoordinate)
          /\ (pc # "done" /\ pc' = "done") =>
                \/ event' = "KeyboardInterrupt"
                \/ pc = "again" /\ again' # <<"y">>]_vars

\* C10 witness: calculate_initial_bearing has raised ZeroDivisionError, and the
\* session is back at the origin prompt with nothing displayed.
C10_Witness ==
    /\ event = "ZeroDivisionError"
    /\ pc = "get_origin"
    /\ shown = NoResult

====
